---------------------------- MODULE Spec2Model ----------------------------
(***************************************************************************)
(* Model of src/main.py: the JobQueue admission / dedup / cooldown engine,  *)
(* the ProfileStore, the TierManager and the VMSCompressionEngine facade.  *)
(*                                                                         *)
(* Time is read from the wall clock (time.time()).  The clock is the       *)
(* variable now; every read of time.time() inside one call is a separate   *)
(* reading, and the clock may advance between two readings of one call.    *)
(***************************************************************************)
EXTENDS Integers, Sequences, FiniteSets, TLC

(***************************************************************************)
(* Configuration of the engine (constructor arguments) and model bounds.   *)
(***************************************************************************)
cooldown_seconds == 2
max_tiers_arg == 1
max_profiles == 2
job_slots_per_tier == 1

\* Constants of the module
DEFAULT_MAX_TIERS == 12
MIN_BITRATE_KBPS == 256
MAX_BITRATE_KBPS == 25000

MaxJobs == 2
MaxDrift == 1
MaxNow == 2 * cooldown_seconds

Hashes == {"H1", "H2"}
Callers == {"c1", "c2"}
\* uuid4().hex[:8]: every job draws the same token, the case in which only the
\* counter keeps job ids apart
Uuids == {"a"}
Drifts == 0 .. MaxDrift

Bitrates == {1, 11}
Keyframes == {2, 12}
Codecs == {1, 2}

VARIABLES
    now,                      \* time.time()
    jobs,                     \* JobQueue._jobs: job_id -> EncodeJob
    content_processed,        \* JobQueue._content_processed
    last_request_by_caller,   \* JobQueue._last_request_by_caller
    slot_counter,             \* JobQueue._slot_counter
    by_hash,                  \* ProfileStore._by_hash: key -> CompressionProfile
    order,                    \* ProfileStore._order
    max_tiers,                \* JobQueue._max_tiers and TierManager._max_tiers
    tier_bitrate_kbps,        \* TierManager._tier_bitrate_kbps
    pc,                       \* concurrent schedule calls: each thread's position
    th,                       \* concurrent schedule calls: each thread's locals
    ret,                      \* the last call: its name, arguments and return value
    accepted                  \* history: the accepted schedule calls, in order

queueVars == <<jobs, content_processed, last_request_by_caller, slot_counter>>
storeVars == <<by_hash, order>>
tierVars == <<max_tiers, tier_bitrate_kbps>>
threadVars == <<pc, th>>

\* tier_index arguments: the values on both sides of the two range tests
TierArgs == {-1, max_tiers - 1, max_tiers}
vars == <<now, jobs, content_processed, last_request_by_caller, slot_counter,
          by_hash, order, max_tiers, tier_bitrate_kbps, pc, th, ret, accepted>>

(***************************************************************************)
(* Python values.                                                          *)
(***************************************************************************)
\* Optional[T]: None is the empty tuple, a present value x is <<x>>.
None == <<>>
Some(x) == <<x>>

\* a bool returned by a call, as recorded in ret
PyBool(b) == <<b, "bool">>

\* d[k] = v on a dict d
Put(d, k, v) == [x \in (DOMAIN d) \cup {k} |-> IF x = k THEN v ELSE d[x]]

\* d.get(k, default)
Get(d, k, default) == IF k \in DOMAIN d THEN d[k] ELSE default

EmptyDict == [x \in {} |-> 0]

(***************************************************************************)
(* JobQueue                                                                *)
(***************************************************************************)
\* f"slot_{self._slot_counter}_{uuid.uuid4().hex[:8]}"
SlotId(n, uuid) == <<"slot", n, uuid>>

JobIds == {SlotId(n, u) : n \in 1 .. (MaxJobs + 1), u \in Uuids}

\* _next_slot_id: increments the counter, then formats the id
next_slot_id(uuid) ==
    [slot_counter |-> slot_counter + 1,
     id |-> SlotId(slot_counter + 1, uuid)]

\* can_schedule(caller_id, content_hash) with t the reading of time.time()
can_schedule_cooldown_first(caller_id, content_hash, t) ==
    LET last == Get(last_request_by_caller, caller_id, 0)
    IN  IF t - last < cooldown_seconds
        THEN <<FALSE, "cooldown_active">>
        ELSE IF content_hash \in content_processed
             THEN <<FALSE, "content_already_processed">>
             ELSE <<TRUE, "">>

can_schedule_strict(caller_id, content_hash, t) ==
    IF content_hash \in content_processed
    THEN <<FALSE, "content_already_processed">>
    ELSE LET last == Get(last_request_by_caller, caller_id, 0)
         IN  IF t - last <= cooldown_seconds
             THEN <<FALSE, "cooldown_active">>
             ELSE <<TRUE, "">>

can_schedule(caller_id, content_hash, t) ==
    IF content_hash \in content_processed
    THEN <<FALSE, "content_already_processed">>
    ELSE LET last == Get(last_request_by_caller, caller_id, 0)
         IN  IF t - last < cooldown_seconds
             THEN <<FALSE, "cooldown_active">>
             ELSE <<TRUE, "">>

\* The outcome of a JobQueue call: the returned value and the queue's fields
\* after the call.
QueueOutcome(val, js, cp, lr, sc) ==
    [val |-> val, jobs |-> js, content_processed |-> cp,
     last_request_by_caller |-> lr, slot_counter |-> sc]

QueueUntouched(val) ==
    QueueOutcome(val, jobs, content_processed, last_request_by_caller, slot_counter)

EncodeJob(job_id, content_hash, tier_index, scheduled_at, nonce) ==
    [job_id |-> job_id, content_hash |-> content_hash, tier_index |-> tier_index,
     scheduled_at |-> scheduled_at, nonce |-> nonce,
     fulfilled |-> FALSE, fulfilled_at |-> None]

\* schedule(content_hash, tier_index, caller_id); t0, t1, t2 are the three
\* readings of time.time(): in can_schedule, for scheduled_at, and for the
\* caller's last request time.
schedule_stamps_rejection(content_hash, tier_index, caller_id, uuid, t0, t1, t2) ==
    LET chk == can_schedule(caller_id, content_hash, t0)
    IN  IF ~chk[1]
        THEN QueueOutcome(None, jobs, content_processed,
                          Put(last_request_by_caller, caller_id, t0), slot_counter)
        ELSE IF tier_index < 0 \/ tier_index >= max_tiers
        THEN QueueUntouched(None)
        ELSE LET slot == next_slot_id(uuid)
                 job == EncodeJob(slot.id, content_hash, tier_index, t1, slot.slot_counter)
             IN  QueueOutcome(Some(job), Put(jobs, slot.id, job), content_processed,
                              Put(last_request_by_caller, caller_id, t2),
                              slot.slot_counter)

schedule_rejection_restarts_cooldown(content_hash, tier_index, caller_id, uuid, t0, t1, t2) ==
    LET chk == can_schedule(caller_id, content_hash, t0)
    IN  IF ~chk[1]
        THEN IF chk[2] = "cooldown_active"
             THEN QueueOutcome(None, jobs, content_processed,
                               Put(last_request_by_caller, caller_id, t0), slot_counter)
             ELSE QueueUntouched(None)
        ELSE IF tier_index < 0 \/ tier_index >= max_tiers
        THEN QueueUntouched(None)
        ELSE LET slot == next_slot_id(uuid)
                 job == EncodeJob(slot.id, content_hash, tier_index, t1, slot.slot_counter)
             IN  QueueOutcome(Some(job), Put(jobs, slot.id, job), content_processed,
                              Put(last_request_by_caller, caller_id, t2),
                              slot.slot_counter)

schedule_shared_stamp(content_hash, tier_index, caller_id, uuid, t0, t1, t2) ==
    LET chk == can_schedule(caller_id, content_hash, t0)
    IN  IF ~chk[1]
        THEN QueueUntouched(None)
        ELSE IF tier_index < 0 \/ tier_index >= max_tiers
        THEN QueueUntouched(None)
        ELSE LET slot == next_slot_id(uuid)
                 job == EncodeJob(slot.id, content_hash, tier_index, t1, slot.slot_counter)
             IN  QueueOutcome(Some(job), Put(jobs, slot.id, job), content_processed,
                              [c \in (DOMAIN last_request_by_caller) \cup {caller_id}
                                  |-> t2],
                              slot.slot_counter)

schedule_slot_before_tier(content_hash, tier_index, caller_id, uuid, t0, t1, t2) ==
    LET chk == can_schedule(caller_id, content_hash, t0)
        slot == next_slot_id(uuid)
    IN  IF ~chk[1]
        THEN QueueUntouched(None)
        ELSE IF tier_index < 0 \/ tier_index >= max_tiers
        THEN QueueOutcome(None, jobs, content_processed, last_request_by_caller,
                          slot.slot_counter)
        ELSE LET job == EncodeJob(slot.id, content_hash, tier_index, t1, slot.slot_counter)
             IN  QueueOutcome(Some(job), Put(jobs, slot.id, job), content_processed,
                              Put(last_request_by_caller, caller_id, t2),
                              slot.slot_counter)

schedule_enforces_slots(content_hash, tier_index, caller_id, uuid, t0, t1, t2) ==
    LET chk == can_schedule(caller_id, content_hash, t0)
        in_tier == {j \in DOMAIN jobs : jobs[j].tier_index = tier_index}
    IN  IF ~chk[1]
        THEN QueueUntouched(None)
        ELSE IF tier_index < 0 \/ tier_index >= max_tiers
        THEN QueueUntouched(None)
        ELSE IF Cardinality(in_tier) >= job_slots_per_tier
        THEN QueueUntouched(None)
        ELSE LET slot == next_slot_id(uuid)
                 job == EncodeJob(slot.id, content_hash, tier_index, t1, slot.slot_counter)
             IN  QueueOutcome(Some(job), Put(jobs, slot.id, job), content_processed,
                              Put(last_request_by_caller, caller_id, t2),
                              slot.slot_counter)

schedule(content_hash, tier_index, caller_id, uuid, t0, t1, t2) ==
    LET chk == can_schedule(caller_id, content_hash, t0)
    IN  IF ~chk[1]
        THEN QueueUntouched(None)
        ELSE IF tier_index < 0 \/ tier_index >= max_tiers
        THEN QueueUntouched(None)
        ELSE LET slot == next_slot_id(uuid)
                 job == EncodeJob(slot.id, content_hash, tier_index, t1, slot.slot_counter)
             IN  QueueOutcome(Some(job), Put(jobs, slot.id, job), content_processed,
                              Put(last_request_by_caller, caller_id, t2),
                              slot.slot_counter)

\* fulfill(job_id) with t the reading of time.time()
fulfill_again(job_id, t) ==
    IF job_id \notin DOMAIN jobs
    THEN QueueUntouched(FALSE)
    ELSE LET job == jobs[job_id]
         IN  QueueOutcome(TRUE,
                 Put(jobs, job_id, [job EXCEPT !.fulfilled = TRUE,
                                               !.fulfilled_at = Some(t)]),
                 content_processed \cup {job.content_hash},
                 last_request_by_caller, slot_counter)

fulfill_no_stamp(job_id, t) ==
    IF job_id \notin DOMAIN jobs
    THEN QueueUntouched(FALSE)
    ELSE LET job == jobs[job_id]
         IN  IF job.fulfilled
             THEN QueueUntouched(FALSE)
             ELSE QueueOutcome(TRUE,
                      Put(jobs, job_id, [job EXCEPT !.fulfilled = TRUE]),
                      content_processed \cup {job.content_hash},
                      last_request_by_caller, slot_counter)

fulfill_forgets_hash(job_id, t) ==
    IF job_id \notin DOMAIN jobs
    THEN QueueUntouched(FALSE)
    ELSE LET job == jobs[job_id]
         IN  IF job.fulfilled
             THEN QueueUntouched(FALSE)
             ELSE QueueOutcome(TRUE,
                      Put(jobs, job_id, [job EXCEPT !.fulfilled = TRUE,
                                                    !.fulfilled_at = Some(t)]),
                      content_processed,
                      last_request_by_caller, slot_counter)

fulfill(job_id, t) ==
    IF job_id \notin DOMAIN jobs
    THEN QueueUntouched(FALSE)
    ELSE LET job == jobs[job_id]
         IN  IF job.fulfilled
             THEN QueueUntouched(FALSE)
             ELSE QueueOutcome(TRUE,
                      Put(jobs, job_id, [job EXCEPT !.fulfilled = TRUE,
                                                    !.fulfilled_at = Some(t)]),
                      content_processed \cup {job.content_hash},
                      last_request_by_caller, slot_counter)

\* is_content_processed
is_content_processed(content_hash) == content_hash \in content_processed

\* next_slot_number
next_slot_number == slot_counter + 1

(***************************************************************************)
(* ProfileStore                                                            *)
(***************************************************************************)
\* str(n) for an int n, as a sequence of characters
Digit(d) == <<"0", "1", "2", "3", "4", "5", "6", "7", "8", "9">>[d + 1]

RECURSIVE IntToStr(_)
IntToStr(n) ==
    IF n < 0 THEN <<"-">> \o IntToStr(-n)
    ELSE IF n < 10 THEN <<Digit(n)>>
    ELSE IntToStr(n \div 10) \o <<Digit(n % 10)>>

\* hashlib.sha256(raw).hexdigest(): a digest, taken to be collision free
sha256_hexdigest(raw) == <<"sha256", raw>>

CompressionProfile(profile_id, max_bitrate_kbps, keyframe_interval, codec_id, active, created_at) ==
    [profile_id |-> profile_id, max_bitrate_kbps |-> max_bitrate_kbps,
     keyframe_interval |-> keyframe_interval, codec_id |-> codec_id,
     active |-> active, created_at |-> created_at]

\* ProfileStore._profile_key
profile_key(profile) ==
    sha256_hexdigest(IntToStr(profile.max_bitrate_kbps) \o <<":">>
                     \o IntToStr(profile.keyframe_interval) \o <<":">>
                     \o IntToStr(profile.codec_id))

\* The outcome of a ProfileStore call: the returned value and the store's
\* fields after the call.
StoreOutcome(val, bh, ord) == [val |-> val, by_hash |-> bh, order |-> ord]

StoreUntouched(val) == StoreOutcome(val, by_hash, order)

\* ProfileStore.add
add_off_by_one(profile) ==
    LET key == profile_key(profile)
    IN  IF key \in DOMAIN by_hash
        THEN StoreUntouched(FALSE)
        ELSE IF Cardinality(DOMAIN by_hash) > max_profiles
        THEN StoreUntouched(FALSE)
        ELSE StoreOutcome(TRUE, Put(by_hash, key, profile), Append(order, key))

add(profile) ==
    LET key == profile_key(profile)
    IN  IF key \in DOMAIN by_hash
        THEN StoreUntouched(FALSE)
        ELSE IF Cardinality(DOMAIN by_hash) >= max_profiles
        THEN StoreUntouched(FALSE)
        ELSE StoreOutcome(TRUE, Put(by_hash, key, profile), Append(order, key))

\* ProfileStore.get
get(profile_hash) ==
    IF profile_hash \in DOMAIN by_hash THEN Some(by_hash[profile_hash]) ELSE None

\* ProfileStore.deactivate
deactivate_toggle(profile_hash) ==
    IF profile_hash \notin DOMAIN by_hash
    THEN StoreUntouched(FALSE)
    ELSE LET p == by_hash[profile_hash]
         IN  StoreOutcome(TRUE,
                          Put(by_hash, profile_hash, [p EXCEPT !.active = ~p.active]),
                          order)

deactivate_deletes(profile_hash) ==
    IF profile_hash \notin DOMAIN by_hash
    THEN StoreUntouched(FALSE)
    ELSE LET p == by_hash[profile_hash]
         IN  IF ~p.active
             THEN StoreUntouched(FALSE)
             ELSE StoreOutcome(TRUE,
                               [k \in (DOMAIN by_hash) \ {profile_hash} |-> by_hash[k]],
                               SelectSeq(order, LAMBDA k : k # profile_hash))

deactivate(profile_hash) ==
    IF profile_hash \notin DOMAIN by_hash
    THEN StoreUntouched(FALSE)
    ELSE LET p == by_hash[profile_hash]
         IN  IF ~p.active
             THEN StoreUntouched(FALSE)
             ELSE StoreOutcome(TRUE,
                               Put(by_hash, profile_hash, [p EXCEPT !.active = FALSE]),
                               order)

\* _by_hash.values(): a dict iterates in insertion order, which _order records
values == [i \in 1 .. Len(order) |-> by_hash[order[i]]]

\* ProfileStore.active_count: sum(1 for p in values if p.active)
RECURSIVE CountActive(_)
CountActive(ps) ==
    IF ps = <<>>
    THEN 0
    ELSE (IF Head(ps).active THEN 1 ELSE 0) + CountActive(Tail(ps))

active_count == CountActive(values)

\* ProfileStore.list_active
list_active == SelectSeq(values, LAMBDA p : p.active)

\* The profiles and keys the calls are made with.
ProfileArgs ==
    {CompressionProfile(u, b, k, c, a, now) :
        u \in Uuids, b \in Bitrates, k \in Keyframes, c \in Codecs, a \in BOOLEAN}

KeyArgs == {profile_key(CompressionProfile("a", b, k, c, TRUE, 0)) :
               b \in Bitrates, k \in Keyframes, c \in Codecs}

(***************************************************************************)
(* TierManager                                                             *)
(***************************************************************************)
\* base + [22000, 25000]
DefaultLadder == <<400, 800, 1200, 2400, 4800, 8000, 12000, 18000, 22000, 25000>>

\* s[:n] on a list s
Slice(s, n) ==
    IF n >= 0
    THEN SubSeq(s, 1, IF n < Len(s) THEN n ELSE Len(s))
    ELSE SubSeq(s, 1, IF Len(s) + n > 0 THEN Len(s) + n ELSE 0)

\* _rebuild_default_tiers, for a manager built with max_tiers = mt
rebuild_default_tiers(mt) == Slice(DefaultLadder, mt)

get_tier_count == Len(tier_bitrate_kbps)

\* get_bitrate_for_tier; tier_index counts from 0
get_bitrate_for_tier(tier_index) ==
    IF 0 <= tier_index /\ tier_index < Len(tier_bitrate_kbps)
    THEN tier_bitrate_kbps[tier_index + 1]
    ELSE 0

\* while len(self._tier_bitrate_kbps) <= tier_index: append(MIN_BITRATE_KBPS)
RECURSIVE PadTiers(_, _)
PadTiers(tiers, tier_index) ==
    IF Len(tiers) <= tier_index
    THEN PadTiers(Append(tiers, MIN_BITRATE_KBPS), tier_index)
    ELSE tiers

\* The outcome of set_tier_bitrate: the returned value and the tier list
\* after the call.
TierOutcome(val, tiers) == [val |-> val, tier_bitrate_kbps |-> tiers]

set_tier_bitrate_open_top(tier_index, kbps) ==
    IF tier_index < 0 \/ tier_index > max_tiers
    THEN TierOutcome(FALSE, tier_bitrate_kbps)
    ELSE IF kbps < MIN_BITRATE_KBPS \/ kbps > MAX_BITRATE_KBPS
    THEN TierOutcome(FALSE, tier_bitrate_kbps)
    ELSE TierOutcome(TRUE,
             [PadTiers(tier_bitrate_kbps, tier_index) EXCEPT ![tier_index + 1] = kbps])

set_tier_bitrate_exclusive(tier_index, kbps) ==
    IF tier_index < 0 \/ tier_index >= max_tiers
    THEN TierOutcome(FALSE, tier_bitrate_kbps)
    ELSE IF kbps <= MIN_BITRATE_KBPS \/ kbps >= MAX_BITRATE_KBPS
    THEN TierOutcome(FALSE, tier_bitrate_kbps)
    ELSE TierOutcome(TRUE,
             [PadTiers(tier_bitrate_kbps, tier_index) EXCEPT ![tier_index + 1] = kbps])

set_tier_bitrate(tier_index, kbps) ==
    IF tier_index < 0 \/ tier_index >= max_tiers
    THEN TierOutcome(FALSE, tier_bitrate_kbps)
    ELSE IF kbps < MIN_BITRATE_KBPS \/ kbps > MAX_BITRATE_KBPS
    THEN TierOutcome(FALSE, tier_bitrate_kbps)
    ELSE TierOutcome(TRUE,
             [PadTiers(tier_bitrate_kbps, tier_index) EXCEPT ![tier_index + 1] = kbps])

\* iter_tiers: the pairs enumerate() yields, in order
iter_tiers ==
    [i \in 1 .. Len(tier_bitrate_kbps) |-> <<i - 1, tier_bitrate_kbps[i]>>]

\* The configurations and arguments the tier manager is exercised with.
TierConfigs == {0, 1, Len(DefaultLadder), DEFAULT_MAX_TIERS}

TierIndexArgs ==
    {-1, 0, Len(DefaultLadder) - 1, Len(DefaultLadder),
     DEFAULT_MAX_TIERS - 1, DEFAULT_MAX_TIERS}

KbpsArgs ==
    {MIN_BITRATE_KBPS - 1, MIN_BITRATE_KBPS, MAX_BITRATE_KBPS, MAX_BITRATE_KBPS + 1}

(***************************************************************************)
(* VMSCompressionEngine: the profile calls of the facade.                  *)
(***************************************************************************)
\* CompressionProfile.to_dict
to_dict(p) ==
    [profile_id |-> p.profile_id, max_bitrate_kbps |-> p.max_bitrate_kbps,
     keyframe_interval |-> p.keyframe_interval, codec_id |-> p.codec_id,
     active |-> p.active, created_at |-> p.created_at]

\* VMSCompressionEngine._profile_key
engine_profile_key_swapped(profile) ==
    sha256_hexdigest(IntToStr(profile.max_bitrate_kbps) \o <<":">>
                     \o IntToStr(profile.codec_id) \o <<":">>
                     \o IntToStr(profile.keyframe_interval))

engine_profile_key(profile) ==
    sha256_hexdigest(IntToStr(profile.max_bitrate_kbps) \o <<":">>
                     \o IntToStr(profile.keyframe_interval) \o <<":">>
                     \o IntToStr(profile.codec_id))

\* register_profile; uuid is uuid4().hex and t the reading of time.time()
register_profile(max_bitrate_kbps, keyframe_interval, codec_id, uuid, t) ==
    LET profile == CompressionProfile(uuid, max_bitrate_kbps, keyframe_interval,
                                      codec_id, TRUE, t)
        r == add(profile)
    IN  IF ~r.val
        THEN StoreOutcome(None, r.by_hash, r.order)
        ELSE StoreOutcome(Some(engine_profile_key(profile)), r.by_hash, r.order)

deactivate_profile(profile_hash) == deactivate(profile_hash)

\* schedule_encode_job: delegates to JobQueue.schedule
schedule_encode_job(content_hash, tier_index, caller_id, uuid, t0, t1, t2) ==
    schedule(content_hash, tier_index, caller_id, uuid, t0, t1, t2)

\* fulfill_job: delegates to JobQueue.fulfill
fulfill_job(job_id, t) == fulfill(job_id, t)

get_profile(profile_hash) ==
    LET p == get(profile_hash)
    IN  IF p # None THEN Some(to_dict(p[1])) ELSE None

(***************************************************************************)
(* The state after construction.                                           *)
(***************************************************************************)
Init ==
    /\ now = 0
    /\ jobs = EmptyDict
    /\ content_processed = {}
    /\ last_request_by_caller = EmptyDict
    /\ slot_counter = 0
    /\ by_hash = EmptyDict
    /\ order = <<>>
    /\ max_tiers = max_tiers_arg
    /\ tier_bitrate_kbps = rebuild_default_tiers(max_tiers_arg)
    /\ pc = EmptyDict
    /\ th = EmptyDict
    /\ ret = [op |-> "init", args |-> <<>>, val |-> None]
    /\ accepted = <<>>

(***************************************************************************)
(* Actions of the job queue.                                               *)
(***************************************************************************)
\* The clock advances.
Tick ==
    /\ now < MaxNow
    /\ now' = now + 1
    /\ ret' = [op |-> "tick", args |-> <<>>, val |-> None]
    /\ UNCHANGED <<queueVars, storeVars, tierVars, threadVars, accepted>>

CanSchedule(caller_id, content_hash) ==
    /\ ret' = [op |-> "can_schedule", args |-> <<caller_id, content_hash>>,
               val |-> can_schedule(caller_id, content_hash, now)]
    /\ UNCHANGED <<now, queueVars, storeVars, tierVars, threadVars, accepted>>

Schedule(content_hash, tier_index, caller_id, uuid, d1, d2) ==
    LET r == schedule(content_hash, tier_index, caller_id, uuid,
                      now, now + d1, now + d1 + d2)
    IN  /\ now + d1 + d2 <= MaxNow
        /\ (r.val # None) => slot_counter < MaxJobs
        /\ (r.val = None) => (d1 = 0 /\ d2 = 0)
        /\ jobs' = r.jobs
        /\ content_processed' = r.content_processed
        /\ last_request_by_caller' = r.last_request_by_caller
        /\ slot_counter' = r.slot_counter
        /\ now' = now + d1 + d2
        /\ ret' = [op |-> "schedule",
                   args |-> <<content_hash, caller_id>>,
                   val |-> r.val]
        /\ accepted' = IF r.val = None
                       THEN accepted
                       ELSE Append(accepted,
                                   [caller |-> caller_id, check_at |-> now,
                                    at |-> now + d1 + d2,
                                    job_id |-> r.val[1].job_id])
        /\ UNCHANGED <<storeVars, tierVars, threadVars>>

Fulfill(job_id) ==
    LET r == fulfill(job_id, now)
    IN  /\ jobs' = r.jobs
        /\ content_processed' = r.content_processed
        /\ last_request_by_caller' = r.last_request_by_caller
        /\ slot_counter' = r.slot_counter
        /\ ret' = [op |-> "fulfill", args |-> <<job_id>>, val |-> PyBool(r.val)]
        /\ UNCHANGED <<now, storeVars, tierVars, threadVars, accepted>>

Next ==
    \/ Tick
    \/ \E c \in Callers, h \in Hashes : CanSchedule(c, h)
    \/ \E h \in Hashes, t \in TierArgs, c \in Callers, u \in Uuids,
          d1 \in Drifts, d2 \in Drifts : Schedule(h, t, c, u, d1, d2)
    \/ \E j \in JobIds : Fulfill(j)

Spec == Init /\ [][Next]_vars

(***************************************************************************)
(* Actions of the profile store.                                           *)
(***************************************************************************)
Add(profile) ==
    LET r == add(profile)
    IN  /\ by_hash' = r.by_hash
        /\ order' = r.order
        /\ ret' = [op |-> "add", args |-> <<profile>>, val |-> PyBool(r.val)]
        /\ UNCHANGED <<now, queueVars, tierVars, threadVars, accepted>>

Deactivate(profile_hash) ==
    LET r == deactivate(profile_hash)
    IN  /\ by_hash' = r.by_hash
        /\ order' = r.order
        /\ ret' = [op |-> "deactivate", args |-> <<profile_hash>>, val |-> PyBool(r.val)]
        /\ UNCHANGED <<now, queueVars, tierVars, threadVars, accepted>>

NextProfiles ==
    \/ \E p \in ProfileArgs : Add(p)
    \/ \E k \in KeyArgs : Deactivate(k)

SpecProfiles == Init /\ [][NextProfiles]_vars

(***************************************************************************)
(* The tier manager on its own, for each configuration.                    *)
(***************************************************************************)
InitTiers ==
    /\ now = 0
    /\ jobs = EmptyDict
    /\ content_processed = {}
    /\ last_request_by_caller = EmptyDict
    /\ slot_counter = 0
    /\ by_hash = EmptyDict
    /\ order = <<>>
    /\ max_tiers \in TierConfigs
    /\ tier_bitrate_kbps = rebuild_default_tiers(max_tiers)
    /\ pc = EmptyDict
    /\ th = EmptyDict
    /\ ret = [op |-> "init", args |-> <<>>, val |-> None]
    /\ accepted = <<>>

SetTierBitrate(tier_index, kbps) ==
    LET r == set_tier_bitrate(tier_index, kbps)
    IN  /\ tier_bitrate_kbps' = r.tier_bitrate_kbps
        /\ ret' = [op |-> "set_tier_bitrate", args |-> <<tier_index, kbps>>,
                   val |-> PyBool(r.val)]
        /\ UNCHANGED <<now, queueVars, storeVars, max_tiers, threadVars, accepted>>

GetBitrateForTier(tier_index) ==
    /\ ret' = [op |-> "get_bitrate_for_tier", args |-> <<tier_index>>,
               val |-> <<get_bitrate_for_tier(tier_index)>>]
    /\ UNCHANGED <<now, queueVars, storeVars, tierVars, threadVars, accepted>>

NextTiers ==
    \/ \E i \in TierIndexArgs, k \in KbpsArgs : SetTierBitrate(i, k)
    \/ \E i \in TierIndexArgs : GetBitrateForTier(i)

SpecTiers == InitTiers /\ [][NextTiers]_vars

(***************************************************************************)
(* The profile calls of the facade.                                        *)
(***************************************************************************)
RegisterProfile(max_bitrate_kbps, keyframe_interval, codec_id, uuid) ==
    LET r == register_profile(max_bitrate_kbps, keyframe_interval, codec_id, uuid, now)
    IN  /\ by_hash' = r.by_hash
        /\ order' = r.order
        /\ ret' = [op |-> "register_profile",
                   args |-> <<max_bitrate_kbps, keyframe_interval, codec_id>>,
                   val |-> r.val]
        /\ UNCHANGED <<now, queueVars, tierVars, threadVars, accepted>>

DeactivateProfile(profile_hash) ==
    LET r == deactivate_profile(profile_hash)
    IN  /\ by_hash' = r.by_hash
        /\ order' = r.order
        /\ ret' = [op |-> "deactivate_profile", args |-> <<profile_hash>>,
                   val |-> PyBool(r.val)]
        /\ UNCHANGED <<now, queueVars, tierVars, threadVars, accepted>>

GetProfile(profile_hash) ==
    /\ ret' = [op |-> "get_profile", args |-> <<profile_hash>>,
               val |-> get_profile(profile_hash)]
    /\ UNCHANGED <<now, queueVars, storeVars, tierVars, threadVars, accepted>>

NextFacade ==
    \/ \E b \in Bitrates, k \in Keyframes, c \in Codecs, u \in Uuids :
          RegisterProfile(b, k, c, u)
    \/ \E k \in KeyArgs : DeactivateProfile(k)
    \/ \E k \in KeyArgs : GetProfile(k)

SpecFacade == Init /\ [][NextFacade]_vars

(***************************************************************************)
(* Properties of the job queue.                                            *)
(***************************************************************************)
\* Some stored job with content hash h has been fulfilled.
FulfilledHash(h) ==
    \E j \in DOMAIN jobs : jobs[j].content_hash = h /\ jobs[j].fulfilled

\* The callers that have an accepted schedule call, and the time of the
\* latest one.
HasAccepted(c) == \E i \in 1 .. Len(accepted) : accepted[i].caller = c

LastAcceptedAt(c) ==
    LET idx == {i \in 1 .. Len(accepted) : accepted[i].caller = c}
        last == CHOOSE i \in idx : \A k \in idx : k <= i
    IN  accepted[last].at

ValidTiers == 0 .. (max_tiers - 1)

\* Every call on h, by any caller, at the current or any later clock value,
\* is turned down as already processed.
DedupDenied(h) ==
    /\ \A c \in Callers, t \in now .. MaxNow :
          can_schedule(c, h, t) = <<FALSE, "content_already_processed">>
    /\ \A c \in Callers, tier \in TierArgs, u \in Uuids, t \in now .. MaxNow :
          schedule(h, tier, c, u, t, t, t).val = None

\* C1: permanent dedup. Once a job with content hash h has been fulfilled,
\* can_schedule(c, h) is (False, "content_already_processed") for every caller
\* and schedule(h, t, c) is None for every tier, and this stays so after every
\* later call and clock advance.
C1_PermanentDedup ==
    /\ [](\A h \in Hashes : FulfilledHash(h) => DedupDenied(h))
    /\ [][\A h \in Hashes : FulfilledHash(h) =>
            /\ FulfilledHash(h)'
            /\ (ret'.op = "schedule" /\ ret'.args[1] = h) => ret'.val = None
            /\ (ret'.op = "can_schedule" /\ ret'.args[2] = h) =>
                   ret'.val = <<FALSE, "content_already_processed">>]_vars

\* A caller that never scheduled, at a time past any cooldown, was turned
\* down on a processed hash.
C1_Witness ==
    /\ ret.op = "schedule"
    /\ ret.val = None
    /\ FulfilledHash(ret.args[1])
    /\ ret.args[2] \notin DOMAIN last_request_by_caller
    /\ now >= cooldown_seconds

\* C2: at most one job per content hash is ever fulfilled.
C2_AtMostOneFulfilledPerHash ==
    \A h \in Hashes :
        Cardinality({j \in DOMAIN jobs :
                        jobs[j].content_hash = h /\ jobs[j].fulfilled}) <= 1

\* C3: with c's previous schedule accepted at t1, a schedule call by c at t2
\* with an unprocessed hash and a valid tier is rejected with cooldown_active
\* when t2 - t1 < cooldown_seconds and accepted when t2 - t1 >= cooldown_seconds.
C3_CooldownDecision ==
    \A c \in Callers : HasAccepted(c) =>
        \A h \in Hashes \ content_processed, tier \in ValidTiers, u \in Uuids,
           t2 \in now .. (now + cooldown_seconds) :
            LET t1 == LastAcceptedAt(c)
                chk == can_schedule(c, h, t2)
                r == schedule(h, tier, c, u, t2, t2, t2)
            IN  IF t2 - t1 < cooldown_seconds
                THEN chk = <<FALSE, "cooldown_active">> /\ r.val = None
                ELSE /\ chk = <<TRUE, "">>
                     /\ r.val # None
                     /\ r.val[1].content_hash = h
                     /\ r.val[1].tier_index = tier

\* A caller was accepted a second time exactly cooldown_seconds after its
\* previous accepted call.
C3_Witness ==
    /\ ret.op = "schedule"
    /\ ret.val # None
    /\ \E i, j \in 1 .. Len(accepted) :
          /\ i < j
          /\ j = Len(accepted)
          /\ accepted[i].caller = accepted[j].caller
          /\ accepted[j].check_at - accepted[i].at = cooldown_seconds

\* C4: a schedule call that returns None leaves the job map, the fulfilled
\* set, every caller's last accepted time and the sequence counter as they
\* were, and so does every can_schedule call.
C4_RejectedScheduleNoMutation ==
    /\ [](\A h \in Hashes, tier \in TierArgs, c \in Callers, u \in Uuids :
            LET r == schedule(h, tier, c, u, now, now, now)
            IN  r.val = None =>
                    /\ r.jobs = jobs
                    /\ r.content_processed = content_processed
                    /\ r.last_request_by_caller = last_request_by_caller
                    /\ r.slot_counter = slot_counter)
    /\ [][((ret'.op = "schedule" /\ ret'.val = None) \/ ret'.op = "can_schedule")
             => UNCHANGED queueVars]_vars

\* A caller inside its cooldown window was turned down on an unprocessed hash.
C4_Witness ==
    /\ ret.op = "schedule"
    /\ ret.val = None
    /\ ret.args[1] \notin content_processed
    /\ ret.args[2] \in DOMAIN last_request_by_caller
    /\ now - last_request_by_caller[ret.args[2]] < cooldown_seconds
    /\ now - last_request_by_caller[ret.args[2]] > 0

\* C5: a caller without an accepted schedule call passes the cooldown check
\* at every clock value: can_schedule on an unprocessed hash allows, and
\* schedule with a valid tier returns a job.
C5_FirstUsePasses ==
    \A c \in Callers, h \in Hashes :
        (/\ ret.op = "can_schedule"
         /\ ret.args = <<c, h>>
         /\ ~HasAccepted(c)
         /\ h \notin content_processed)
        => /\ ret.val = <<TRUE, "">>
           /\ \A tier \in ValidTiers, u \in Uuids :
                 schedule(h, tier, c, u, now, now, now).val # None

\* C6: two accepted schedule calls of one caller are at least cooldown_seconds
\* apart, and an accepted call of one caller leaves the last accepted time and
\* the cooldown decision of every other caller as they were.
C6_PerCallerSpacing ==
    /\ [](\A i, j \in 1 .. Len(accepted) :
            (i < j /\ accepted[i].caller = accepted[j].caller) =>
                /\ accepted[j].at - accepted[i].at >= cooldown_seconds
                /\ accepted[j].check_at - accepted[i].at >= cooldown_seconds
                /\ jobs[accepted[j].job_id].scheduled_at
                      - jobs[accepted[i].job_id].scheduled_at >= cooldown_seconds)
    /\ [][ret'.op = "schedule" =>
            \A c \in Callers \ {ret'.args[2]} :
                /\ (c \in DOMAIN last_request_by_caller')
                      <=> (c \in DOMAIN last_request_by_caller)
                /\ c \in DOMAIN last_request_by_caller =>
                      last_request_by_caller'[c] = last_request_by_caller[c]
                /\ \A h \in Hashes, t \in now' .. MaxNow :
                      can_schedule(c, h, t)' = can_schedule(c, h, t)]_vars

\* One caller has two accepted calls while the other caller, accepted in
\* between, keeps its own last accepted time.
C6_Witness ==
    /\ Len(accepted) = 2
    /\ accepted[1].caller # accepted[2].caller
    /\ ret.op = "schedule"
    /\ ret.val # None
    /\ last_request_by_caller[accepted[1].caller] = accepted[1].at
    /\ accepted[2].at - accepted[1].at < cooldown_seconds

\* C7: fulfill returns False and changes nothing for an absent or already
\* fulfilled job; for a stored unfulfilled job it returns True once, and a
\* later fulfill of the same job returns False and leaves fulfilled,
\* fulfilled_at and the fulfilled set as they were.
C7_FulfillOnce ==
    /\ [](\A j \in JobIds, t \in now .. MaxNow :
            LET r == fulfill(j, t)
            IN  IF j \notin DOMAIN jobs \/ jobs[j].fulfilled
                THEN /\ r.val = FALSE
                     /\ r.jobs = jobs
                     /\ r.content_processed = content_processed
                ELSE /\ r.val = TRUE
                     /\ r.jobs[j].fulfilled)
    /\ [][ret'.op = "fulfill" =>
            LET j == ret'.args[1]
            IN  /\ ret'.val = PyBool(TRUE) <=> (j \in DOMAIN jobs /\ ~jobs[j].fulfilled)
                /\ ret'.val = PyBool(FALSE) => UNCHANGED queueVars
                /\ ret'.val = PyBool(TRUE) => jobs'[j].fulfilled]_vars

\* A fulfilled job was fulfilled again at a later clock value: the call
\* returned False and the job kept its earlier fulfilled_at.
C7_Witness ==
    /\ ret.op = "fulfill"
    /\ ret.val = PyBool(FALSE)
    /\ ret.args[1] \in DOMAIN jobs
    /\ jobs[ret.args[1]].fulfilled
    /\ jobs[ret.args[1]].fulfilled_at # None
    /\ jobs[ret.args[1]].fulfilled_at[1] < now

\* C8: a stored job has fulfilled_at set exactly when fulfilled is True;
\* fulfilled never goes back to False; a stored job is never removed and its
\* content_hash, tier_index, scheduled_at and nonce never change.
C8_JobLifecycle ==
    /\ [](\A j \in DOMAIN jobs : (jobs[j].fulfilled_at # None) <=> jobs[j].fulfilled)
    /\ [][\A j \in DOMAIN jobs :
            /\ j \in DOMAIN jobs'
            /\ jobs[j].fulfilled => jobs'[j].fulfilled
            /\ jobs'[j].job_id = jobs[j].job_id
            /\ jobs'[j].content_hash = jobs[j].content_hash
            /\ jobs'[j].tier_index = jobs[j].tier_index
            /\ jobs'[j].scheduled_at = jobs[j].scheduled_at
            /\ jobs'[j].nonce = jobs[j].nonce]_vars

\* A job was fulfilled while another job, scheduled later, is still pending.
C8_Witness ==
    /\ ret.op = "fulfill"
    /\ ret.val = PyBool(TRUE)
    /\ jobs[ret.args[1]].fulfilled
    /\ jobs[ret.args[1]].fulfilled_at = Some(now)
    /\ \E j \in DOMAIN jobs : ~jobs[j].fulfilled /\ jobs[j].fulfilled_at = None

(***************************************************************************)
(* Properties of the profile store.                                        *)
(***************************************************************************)
SameTriple(p, q) ==
    /\ p.max_bitrate_kbps = q.max_bitrate_kbps
    /\ p.keyframe_interval = q.keyframe_interval
    /\ p.codec_id = q.codec_id

TripleStored(p) == \E k \in DOMAIN by_hash : SameTriple(by_hash[k], p)

StoreSize == Cardinality(DOMAIN by_hash)

\* C9: add returns False and leaves the key map and the insertion order as
\* they were when the profile's (bitrate, keyframe interval, codec) triple is
\* stored already or the store holds max_profiles profiles; otherwise it
\* stores the profile and returns True. The store never holds more than
\* max_profiles profiles, nor two profiles with the same triple.
C9_AddRejectsDuplicateAndFull ==
    /\ [](/\ StoreSize <= max_profiles
          /\ \A k1, k2 \in DOMAIN by_hash :
                SameTriple(by_hash[k1], by_hash[k2]) => k1 = k2
          /\ Len(order) = StoreSize
          /\ {order[i] : i \in 1 .. Len(order)} = DOMAIN by_hash)
    /\ [][ret'.op = "add" =>
            LET p == ret'.args[1]
            IN  IF TripleStored(p) \/ StoreSize >= max_profiles
                THEN ret'.val = PyBool(FALSE) /\ UNCHANGED storeVars
                ELSE /\ ret'.val = PyBool(TRUE)
                     /\ \E k \in (DOMAIN by_hash') \ (DOMAIN by_hash) :
                           /\ DOMAIN by_hash' = (DOMAIN by_hash) \cup {k}
                           /\ by_hash'[k] = p
                           /\ order' = Append(order, k)
                     /\ \A k \in DOMAIN by_hash : by_hash'[k] = by_hash[k]]_vars

\* A profile whose triple is stored was added again, as a different record,
\* to a store that still has room: the call returned False.
C9_Witness ==
    /\ ret.op = "add"
    /\ ret.val = PyBool(FALSE)
    /\ StoreSize < max_profiles
    /\ \E k \in DOMAIN by_hash :
          SameTriple(by_hash[k], ret.args[1]) /\ by_hash[k] # ret.args[1]

\* C10: deactivate returns False without a state change when the key is
\* absent or the profile is inactive already, and otherwise sets active to
\* False and returns True. An inactive profile never becomes active again, no
\* profile is ever removed, and a stored profile's bitrate, keyframe interval
\* and codec id never change.
C10_ActiveOneWay ==
    [][/\ \A k \in DOMAIN by_hash :
            /\ k \in DOMAIN by_hash'
            /\ ~by_hash[k].active => ~by_hash'[k].active
            /\ SameTriple(by_hash'[k], by_hash[k])
       /\ ret'.op = "deactivate" =>
            LET k == ret'.args[1]
            IN  IF k \notin DOMAIN by_hash \/ ~by_hash[k].active
                THEN ret'.val = PyBool(FALSE) /\ UNCHANGED storeVars
                ELSE /\ ret'.val = PyBool(TRUE)
                     /\ by_hash' = [by_hash EXCEPT ![k].active = FALSE]
                     /\ order' = order]_vars

\* A stored, inactive profile was deactivated again: the call returned False
\* and the profile is still stored and inactive.
C10_Witness ==
    /\ ret.op = "deactivate"
    /\ ret.val = PyBool(FALSE)
    /\ ret.args[1] \in DOMAIN by_hash
    /\ ~by_hash[ret.args[1]].active
    /\ \E k \in DOMAIN by_hash : by_hash[k].active

(***************************************************************************)
(* Properties of the tier manager.                                         *)
(***************************************************************************)
\* C11: set_tier_bitrate(index, kbps) returns False and leaves the tier list
\* as it was when index is outside [0, max_tiers) or kbps is outside
\* [256, 25000]; otherwise it returns True, fills the positions from the old
\* length up to index with 256, sets position index to kbps and leaves every
\* other old position as it was.
C11_SetTierBitrate ==
    [][ret'.op = "set_tier_bitrate" =>
        LET i == ret'.args[1]
            kbps == ret'.args[2]
            old == tier_bitrate_kbps
            new == tier_bitrate_kbps'
        IN  IF i < 0 \/ i >= max_tiers \/ kbps < 256 \/ kbps > 25000
            THEN ret'.val = PyBool(FALSE) /\ new = old
            ELSE /\ ret'.val = PyBool(TRUE)
                 /\ Len(new) = (IF Len(old) > i + 1 THEN Len(old) ELSE i + 1)
                 /\ new[i + 1] = kbps
                 /\ \A j \in 1 .. Len(old) : j # i + 1 => new[j] = old[j]
                 /\ \A j \in (Len(old) + 1) .. i : new[j] = 256]_vars

\* Tier 11 of a 12 tier manager was set to the highest bitrate on the ten
\* entry default ladder: the list grew to 12 entries with 256 at tier 10.
C11_Witness ==
    /\ ret.op = "set_tier_bitrate"
    /\ ret.args = <<DEFAULT_MAX_TIERS - 1, 25000>>
    /\ ret.val = PyBool(TRUE)
    /\ Len(tier_bitrate_kbps) = DEFAULT_MAX_TIERS
    /\ tier_bitrate_kbps[DEFAULT_MAX_TIERS - 1] = 256
    /\ tier_bitrate_kbps[DEFAULT_MAX_TIERS] = 25000

\* C19: for max_tiers >= 0 the tier list has at most max_tiers entries, never
\* shrinks, and holds only values in [256, 25000]; get_bitrate_for_tier(i) is 0
\* exactly for i outside [0, get_tier_count()), and iter_tiers yields the pairs
\* (i, bitrate of tier i) for i = 0 .. get_tier_count() - 1 in index order.
C19_TierTable ==
    /\ [](/\ Len(tier_bitrate_kbps) <= max_tiers
          /\ \A j \in 1 .. Len(tier_bitrate_kbps) :
                256 <= tier_bitrate_kbps[j] /\ tier_bitrate_kbps[j] <= 25000
          /\ \A i \in -1 .. (DEFAULT_MAX_TIERS + 1) :
                (get_bitrate_for_tier(i) = 0) <=> (i < 0 \/ i >= get_tier_count)
          /\ Len(iter_tiers) = get_tier_count
          /\ \A n \in 1 .. Len(iter_tiers) :
                iter_tiers[n] = <<n - 1, get_bitrate_for_tier(n - 1)>>)
    /\ [][/\ Len(tier_bitrate_kbps') >= Len(tier_bitrate_kbps)
          /\ ret'.op = "get_bitrate_for_tier" =>
                ((ret'.val = <<0>>) <=>
                    (ret'.args[1] < 0 \/ ret'.args[1] >= get_tier_count))]_vars

\* A tier index below max_tiers but past the end of the list was looked up
\* and gave 0, after the list had grown beyond the default ladder.
C19_Witness ==
    /\ ret.op = "get_bitrate_for_tier"
    /\ ret.val = <<0>>
    /\ ret.args[1] >= get_tier_count
    /\ ret.args[1] < max_tiers
    /\ get_tier_count > Len(DefaultLadder)

(***************************************************************************)
(* Properties of the facade.                                               *)
(***************************************************************************)
\* C12: when register_profile(b, k, c) returns a key, that key is the key the
\* store holds the profile under: get_profile(key) right after returns b, k, c
\* and active = True, deactivate_profile(key) then succeeds, and after it
\* get_profile(key) returns the same fields with active = False.
C12_RegisterRoundTrip ==
    [][\A key \in KeyArgs :
        /\ (ret'.op = "register_profile" /\ ret'.val = Some(key)) =>
            /\ key \notin DOMAIN by_hash
            /\ DOMAIN by_hash' = (DOMAIN by_hash) \cup {key}
            /\ get_profile(key)' # None
            /\ get_profile(key)'[1].max_bitrate_kbps = ret'.args[1]
            /\ get_profile(key)'[1].keyframe_interval = ret'.args[2]
            /\ get_profile(key)'[1].codec_id = ret'.args[3]
            /\ get_profile(key)'[1].active = TRUE
            /\ deactivate_profile(key)'.val = TRUE
        /\ (/\ ret'.op = "deactivate_profile"
            /\ ret'.args = <<key>>
            /\ get_profile(key) # None
            /\ get_profile(key)[1].active) =>
            /\ ret'.val = PyBool(TRUE)
            /\ get_profile(key)' = Some([get_profile(key)[1] EXCEPT !.active = FALSE])
        /\ (ret'.op = "get_profile" /\ ret'.args = <<key>>) =>
            (ret'.val # None <=> key \in DOMAIN by_hash)
        /\ (ret'.op = "register_profile" /\ ret'.val # None) => ret'.val[1] \in KeyArgs]_vars

\* A registered profile was deactivated through the facade and is still
\* returned by get_profile, inactive, next to a profile that is still active.
C12_Witness ==
    /\ ret.op = "deactivate_profile"
    /\ ret.val = PyBool(TRUE)
    /\ get_profile(ret.args[1]) # None
    /\ ~get_profile(ret.args[1])[1].active
    /\ ret.args[1] = engine_profile_key(get_profile(ret.args[1])[1])
    /\ \E k \in DOMAIN by_hash : by_hash[k].active

(***************************************************************************)
(* Further properties of the job queue.                                    *)
(***************************************************************************)
\* C13: a content hash is in the fulfilled set exactly when some stored job
\* with that hash is fulfilled; schedule never adds to the set and nothing
\* removes from it.
C13_FulfilledSetExact ==
    /\ [](\A h \in Hashes : is_content_processed(h) <=> FulfilledHash(h))
    /\ [][/\ content_processed \subseteq content_processed'
          /\ ret'.op = "schedule" => content_processed' = content_processed
          /\ ret'.op = "can_schedule" => content_processed' = content_processed]_vars

\* One hash entered the set through fulfill while a job of the other hash is
\* stored, pending, and its hash is not in the set.
C13_Witness ==
    /\ ret.op = "fulfill"
    /\ ret.val = PyBool(TRUE)
    /\ content_processed = {jobs[ret.args[1]].content_hash}
    /\ \E j \in DOMAIN jobs :
          /\ ~jobs[j].fulfilled
          /\ ~is_content_processed(jobs[j].content_hash)

\* C14: the sequence counter equals the number of stored jobs; the i-th
\* accepted schedule call produces the job with nonce i, so nonces are
\* distinct, increasing and gap free and job ids are pairwise distinct;
\* next_slot_number() is the nonce of the next accepted job, and a rejected
\* schedule call consumes no sequence number.
C14_SequenceNumbers ==
    /\ [](/\ slot_counter = Cardinality(DOMAIN jobs)
          /\ Len(accepted) = slot_counter
          /\ \A i \in 1 .. Len(accepted) :
                /\ accepted[i].job_id \in DOMAIN jobs
                /\ jobs[accepted[i].job_id].nonce = i
                /\ jobs[accepted[i].job_id].job_id = accepted[i].job_id
          /\ \A i, j \in 1 .. Len(accepted) :
                i # j => accepted[i].job_id # accepted[j].job_id)
    /\ [][ret'.op = "schedule" =>
            IF ret'.val = None
            THEN slot_counter' = slot_counter /\ next_slot_number' = next_slot_number
            ELSE /\ ret'.val[1].nonce = next_slot_number
                 /\ slot_counter' = slot_counter + 1
                 /\ next_slot_number' = next_slot_number + 1]_vars

\* The second accepted call got nonce 2 and the next number is 3.
C14_Witness ==
    /\ ret.op = "schedule"
    /\ ret.val # None
    /\ ret.val[1].nonce = 2
    /\ Len(accepted) = 2
    /\ next_slot_number = 3

\* The unfulfilled jobs stored for a tier.
PendingInTier(tier) ==
    {j \in DOMAIN jobs : jobs[j].tier_index = tier /\ ~jobs[j].fulfilled}

\* C16: job_slots_per_tier does not bound admission: schedule(h, t, c) returns
\* a job exactly when h is unprocessed, c is out of its cooldown and t is in
\* [0, max_tiers), however many jobs are stored for tier t.
C16_SlotsNotEnforced ==
    \A h \in Hashes, tier \in TierArgs, c \in Callers, u \in Uuids :
        (schedule(h, tier, c, u, now, now, now).val # None)
        <=> (/\ h \notin content_processed
             /\ now - Get(last_request_by_caller, c, 0) >= cooldown_seconds
             /\ 0 <= tier
             /\ tier < max_tiers)

\* A job was admitted to a tier that now holds more unfulfilled jobs than
\* job_slots_per_tier.
C16_Witness ==
    /\ ret.op = "schedule"
    /\ ret.val # None
    /\ Cardinality(PendingInTier(ret.val[1].tier_index)) > job_slots_per_tier

(***************************************************************************)
(* Further properties of the profile store.                                *)
(***************************************************************************)
\* C20: deactivation frees nothing. A successful deactivate leaves the number
\* of stored profiles as it was and the profile stored; a stored triple stays
\* stored for ever, so add and register_profile with a stored triple fail,
\* whether the stored profile is active or not; a store holding max_profiles
\* profiles rejects every add, even when all of them are inactive; and
\* active_count() is the number of stored profiles with active = True, at
\* most the number of stored profiles.
C20_DeactivationFreesNothing ==
    /\ [](/\ active_count = Cardinality({k \in DOMAIN by_hash : by_hash[k].active})
          /\ active_count <= StoreSize
          /\ Len(list_active) = active_count
          /\ \A p \in ProfileArgs :
                (TripleStored(p) \/ StoreSize >= max_profiles) =>
                    /\ add(p).val = FALSE
                    /\ register_profile(p.max_bitrate_kbps, p.keyframe_interval,
                                        p.codec_id, p.profile_id, now).val = None)
    /\ [][/\ \A p \in ProfileArgs : TripleStored(p) => TripleStored(p)'
          /\ StoreSize <= StoreSize'
          /\ \A k \in KeyArgs :
                (ret'.op = "deactivate" /\ ret'.args = <<k>> /\ ret'.val = PyBool(TRUE)) =>
                    /\ StoreSize' = StoreSize
                    /\ k \in DOMAIN by_hash
                    /\ k \in DOMAIN by_hash'
                    /\ active_count' = active_count - 1
                    /\ \A p \in ProfileArgs :
                          SameTriple(p, by_hash[k]) => add(p)'.val = FALSE]_vars

\* The store holds max_profiles profiles, none of them active, and an add of
\* a triple that is not stored was rejected.
C20_Witness ==
    /\ ret.op = "add"
    /\ ret.val = PyBool(FALSE)
    /\ StoreSize = max_profiles
    /\ active_count = 0
    /\ ~TripleStored(ret.args[1])

(***************************************************************************)
(* The engine: one max_tiers configures both the tier table and the job    *)
(* queue.  The engine is built with each of the configurations below; the  *)
(* tier manager is reachable through the tier_manager property.            *)
(***************************************************************************)
EngineConfigs == {1, Len(DefaultLadder), DEFAULT_MAX_TIERS}

\* Tier indexes the engine is called with: the first tier, the first index
\* past the default ladder, and the first index past max_tiers.
EngineTierArgs == {0, Len(DefaultLadder), max_tiers}

\* schedule_encode_job is called with its default caller_id
EngineCallers == {"default"}

InitEngine ==
    /\ now = 0
    /\ jobs = EmptyDict
    /\ content_processed = {}
    /\ last_request_by_caller = EmptyDict
    /\ slot_counter = 0
    /\ by_hash = EmptyDict
    /\ order = <<>>
    /\ max_tiers \in EngineConfigs
    /\ tier_bitrate_kbps = rebuild_default_tiers(max_tiers)
    /\ pc = EmptyDict
    /\ th = EmptyDict
    /\ ret = [op |-> "init", args |-> <<>>, val |-> None]
    /\ accepted = <<>>

ScheduleEncodeJob(content_hash, tier_index, caller_id, uuid, d1, d2) ==
    LET r == schedule_encode_job(content_hash, tier_index, caller_id, uuid,
                                 now, now + d1, now + d1 + d2)
    IN  /\ now + d1 + d2 <= MaxNow
        /\ (r.val # None) => slot_counter < MaxJobs
        /\ (r.val = None) => (d1 = 0 /\ d2 = 0)
        /\ jobs' = r.jobs
        /\ content_processed' = r.content_processed
        /\ last_request_by_caller' = r.last_request_by_caller
        /\ slot_counter' = r.slot_counter
        /\ now' = now + d1 + d2
        /\ ret' = [op |-> "schedule_encode_job",
                   args |-> <<content_hash, tier_index, caller_id>>,
                   val |-> r.val]
        /\ accepted' = IF r.val = None
                       THEN accepted
                       ELSE Append(accepted,
                                   [caller |-> caller_id, check_at |-> now,
                                    at |-> now + d1 + d2,
                                    job_id |-> r.val[1].job_id])
        /\ UNCHANGED <<storeVars, tierVars, threadVars>>

FulfillJob(job_id) ==
    LET r == fulfill_job(job_id, now)
    IN  /\ jobs' = r.jobs
        /\ content_processed' = r.content_processed
        /\ last_request_by_caller' = r.last_request_by_caller
        /\ slot_counter' = r.slot_counter
        /\ ret' = [op |-> "fulfill_job", args |-> <<job_id>>, val |-> PyBool(r.val)]
        /\ UNCHANGED <<now, storeVars, tierVars, threadVars, accepted>>

NextEngine ==
    \/ Tick
    \/ \E h \in Hashes, t \in EngineTierArgs, c \in EngineCallers, u \in Uuids,
          d1 \in Drifts, d2 \in Drifts : ScheduleEncodeJob(h, t, c, u, d1, d2)
    \/ \E j \in JobIds : FulfillJob(j)
    \/ SetTierBitrate(Len(DefaultLadder), MIN_BITRATE_KBPS)

SpecEngine == InitEngine /\ [][NextEngine]_vars

\* C18: a job admitted through schedule_encode_job references a populated
\* tier of the engine's tier table: right after the admission,
\* get_bitrate_for_tier(tier_index) is not 0 and tier_index is in
\* [0, get_tier_count()).
C18_AdmittedTierPopulated ==
    (ret.op = "schedule_encode_job" /\ ret.val # None) =>
        /\ get_bitrate_for_tier(ret.val[1].tier_index) # 0
        /\ 0 <= ret.val[1].tier_index
        /\ ret.val[1].tier_index < get_tier_count

(***************************************************************************)
(* Liveness of retries.  The clock keeps advancing (weak fairness on Tick, *)
(* up to the horizon MaxNow of the model) and every caller keeps calling   *)
(* schedule on every hash with a valid tier (weak fairness on the calls:   *)
(* a call that would be admitted does not stay unmade for ever).           *)
(***************************************************************************)
ScheduleBy(c, h) ==
    \E t \in ValidTiers, u \in Uuids, d1 \in Drifts, d2 \in Drifts :
        Schedule(h, t, c, u, d1, d2)

\* The retrying caller; C6 shows that other callers do not move its cooldown.
LiveCallers == {"c1"}

NextLive ==
    \/ Tick
    \/ \E h \in Hashes, t \in TierArgs, c \in LiveCallers, u \in Uuids,
          d1 \in Drifts, d2 \in Drifts : Schedule(h, t, c, u, d1, d2)
    \/ \E j \in JobIds : Fulfill(j)

SpecLive ==
    /\ Init
    /\ [][NextLive]_vars
    /\ WF_now(Tick)
    /\ \A c \in LiveCallers, h \in Hashes : WF_slot_counter(ScheduleBy(c, h))

\* The accepted schedule calls of caller c on hash h.
AcceptedOn(c, h) ==
    {i \in 1 .. Len(accepted) :
        accepted[i].caller = c /\ jobs[accepted[i].job_id].content_hash = h}

\* The time c's cooldown is counted from: its last accepted request, or the
\* code's 0.0 for a caller without one.
CooldownOrigin(c) == IF HasAccepted(c) THEN LastAcceptedAt(c) ELSE 0

\* The model can still show an acceptance of c: the job bound is not
\* exhausted and c's cooldown ends within the clock's horizon.
WithinHorizon(c) ==
    /\ slot_counter < MaxJobs
    /\ CooldownOrigin(c) + cooldown_seconds <= MaxNow

\* C15: cooldown expires passively. An attempt of caller c on an unprocessed
\* hash with a valid tier, made cooldown_seconds or more after c's last
\* accepted request, is accepted, however many rejected attempts came before
\* (they leave the cooldown's origin alone); and under a clock that keeps
\* advancing a caller that keeps calling schedule(h, t, c) on a hash that
\* stays unprocessed eventually has one more accepted call on h.
C15_RetryEventuallyAccepted ==
    /\ [](\A c \in Callers, h \in Hashes, t \in ValidTiers, u \in Uuids :
            (h \notin content_processed /\ now >= CooldownOrigin(c) + cooldown_seconds)
                => schedule(h, t, c, u, now, now, now).val # None)
    /\ [][(ret'.op = "schedule" /\ ret'.val = None) =>
            \A c \in Callers : CooldownOrigin(c)' = CooldownOrigin(c)]_vars
    /\ \A c \in LiveCallers, h \in Hashes, n \in 0 .. MaxJobs :
          (Cardinality(AcceptedOn(c, h)) = n /\ h \notin content_processed)
          ~> \/ Cardinality(AcceptedOn(c, h)) > n
             \/ h \in content_processed
             \/ ~WithinHorizon(c)

\* A caller with an earlier accepted request was just accepted again, on a
\* hash that is still unprocessed, after its cooldown ran out.
C15_Witness ==
    /\ ret.op = "schedule"
    /\ ret.val # None
    /\ Len(accepted) = 2
    /\ accepted[1].caller = accepted[2].caller
    /\ accepted[2].check_at >= accepted[1].at + cooldown_seconds
    /\ ret.val[1].content_hash \notin content_processed

(***************************************************************************)
(* Concurrent schedule calls.  Two threads call schedule for the same      *)
(* caller.  The code takes no lock, so a thread can be preempted between   *)
(* any two of its accesses to the shared state or the clock.  One step per *)
(* access, in the order of the code:                                       *)
(*   check       can_schedule: the fulfilled-set test and the read of the  *)
(*               caller's last accepted time                               *)
(*   check_time  can_schedule: the clock reading and the cooldown test,    *)
(*               then the tier test (which reads no shared state)          *)
(*   next_slot   _next_slot_id: the increment of the counter and the       *)
(*               counter formatted into the id, before uuid4() is called   *)
(*   read_sched  scheduled_at = time.time()                                *)
(*   read_nonce  nonce = self._slot_counter                                *)
(*   store       self._jobs[job_id] = job                                  *)
(*   read_stamp  time.time() of the timestamp update                       *)
(*   stamp       the store into _last_request_by_caller, and the return    *)
(* The calls start with the caller's cooldown expired and the clock        *)
(* advances by less than cooldown_seconds while they run.                  *)
(***************************************************************************)
Threads == {1, 2}

ThreadCaller == "c1"

Other(t) == CHOOSE o \in Threads : o # t

InitThreads ==
    /\ now = cooldown_seconds
    /\ jobs = EmptyDict
    /\ content_processed = {}
    /\ last_request_by_caller = EmptyDict
    /\ slot_counter = 0
    /\ by_hash = EmptyDict
    /\ order = <<>>
    /\ max_tiers = max_tiers_arg
    /\ tier_bitrate_kbps = rebuild_default_tiers(max_tiers_arg)
    /\ pc = [t \in Threads |-> "check"]
    /\ th \in [Threads -> [content_hash : Hashes,
                           tier_index : 0 .. (max_tiers_arg - 1),
                           caller_id : {ThreadCaller},
                           uuid : Uuids,
                           last : {0},
                           check_at : {0},
                           job_id : {None},
                           scheduled_at : {0},
                           nonce : {0},
                           stamp : {0},
                           val : {None},
                           after : {{}}]]
    /\ ret = [op |-> "init", args |-> <<>>, val |-> None]
    /\ accepted = <<>>

\* The call of thread t returns None.
ThreadReturnsNone(t) ==
    /\ pc' = [pc EXCEPT ![t] = "done"]
    /\ ret' = [op |-> "schedule",
               args |-> <<th[t].content_hash, th[t].caller_id>>, val |-> None]

\* if content_hash in self._content_processed: return False, ...
\* last = self._last_request_by_caller.get(caller_id, 0.0)
\* `after` records the threads that had returned a job before this read.
ThreadCheck(t) ==
    LET l == th[t]
        done == {o \in Threads : pc[o] = "done" /\ th[o].val # None}
    IN  /\ pc[t] = "check"
        /\ th' = [th EXCEPT ![t].last = Get(last_request_by_caller, l.caller_id, 0),
                            ![t].after = done]
        /\ IF l.content_hash \in content_processed
           THEN ThreadReturnsNone(t)
           ELSE pc' = [pc EXCEPT ![t] = "check_time"] /\ ret' = ret
        /\ UNCHANGED <<now, queueVars, storeVars, tierVars, accepted>>

\* if time.time() - last < self._cooldown: return False, ...; if not ok:
\* return None; if tier_index < 0 or tier_index >= self._max_tiers: return None
ThreadCheckTime(t) ==
    LET l == th[t]
    IN  /\ pc[t] = "check_time"
        /\ th' = [th EXCEPT ![t].check_at = now]
        /\ IF now - l.last < cooldown_seconds
           THEN ThreadReturnsNone(t)
           ELSE IF l.tier_index < 0 \/ l.tier_index >= max_tiers
           THEN ThreadReturnsNone(t)
           ELSE pc' = [pc EXCEPT ![t] = "next_slot"] /\ ret' = ret
        /\ UNCHANGED <<now, queueVars, storeVars, tierVars, accepted>>

\* job_id = self._next_slot_id()
ThreadNextSlot(t) ==
    LET slot == next_slot_id(th[t].uuid)
    IN  /\ pc[t] = "next_slot"
        /\ slot_counter' = slot.slot_counter
        /\ th' = [th EXCEPT ![t].job_id = Some(slot.id)]
        /\ pc' = [pc EXCEPT ![t] = "read_sched"]
        /\ UNCHANGED <<now, jobs, content_processed, last_request_by_caller,
                       storeVars, tierVars, ret, accepted>>

\* scheduled_at=time.time()
ThreadReadSched(t) ==
    /\ pc[t] = "read_sched"
    /\ th' = [th EXCEPT ![t].scheduled_at = now]
    /\ pc' = [pc EXCEPT ![t] = "read_nonce"]
    /\ UNCHANGED <<now, queueVars, storeVars, tierVars, ret, accepted>>

\* nonce=self._slot_counter
ThreadReadNonce(t) ==
    /\ pc[t] = "read_nonce"
    /\ th' = [th EXCEPT ![t].nonce = slot_counter]
    /\ pc' = [pc EXCEPT ![t] = "store"]
    /\ UNCHANGED <<now, queueVars, storeVars, tierVars, ret, accepted>>

\* The job thread t has built.
ThreadJob(t) ==
    EncodeJob(th[t].job_id[1], th[t].content_hash, th[t].tier_index,
              th[t].scheduled_at, th[t].nonce)

\* self._jobs[job_id] = job
ThreadStore(t) ==
    /\ pc[t] = "store"
    /\ jobs' = Put(jobs, th[t].job_id[1], ThreadJob(t))
    /\ pc' = [pc EXCEPT ![t] = "read_stamp"]
    /\ UNCHANGED <<now, content_processed, last_request_by_caller, slot_counter,
                   storeVars, tierVars, th, ret, accepted>>

\* time.time() of self._last_request_by_caller[caller_id] = time.time()
ThreadReadStamp(t) ==
    /\ pc[t] = "read_stamp"
    /\ th' = [th EXCEPT ![t].stamp = now]
    /\ pc' = [pc EXCEPT ![t] = "stamp"]
    /\ UNCHANGED <<now, queueVars, storeVars, tierVars, ret, accepted>>

\* self._last_request_by_caller[caller_id] = <the reading>; return job
ThreadStamp_no_update(t) ==
    LET l == th[t]
    IN  /\ pc[t] = "stamp"
        /\ last_request_by_caller' = last_request_by_caller
        /\ pc' = [pc EXCEPT ![t] = "done"]
        /\ th' = [th EXCEPT ![t].val = Some(ThreadJob(t))]
        /\ ret' = [op |-> "schedule",
                   args |-> <<l.content_hash, l.caller_id>>,
                   val |-> Some(ThreadJob(t))]
        /\ accepted' = Append(accepted, [caller |-> l.caller_id, check_at |-> l.check_at,
                                         at |-> l.stamp, job_id |-> l.job_id[1]])
        /\ UNCHANGED <<now, jobs, content_processed, slot_counter, storeVars, tierVars>>

ThreadStamp(t) ==
    LET l == th[t]
    IN  /\ pc[t] = "stamp"
        /\ last_request_by_caller' = Put(last_request_by_caller, l.caller_id, l.stamp)
        /\ pc' = [pc EXCEPT ![t] = "done"]
        /\ th' = [th EXCEPT ![t].val = Some(ThreadJob(t))]
        /\ ret' = [op |-> "schedule",
                   args |-> <<l.content_hash, l.caller_id>>,
                   val |-> Some(ThreadJob(t))]
        /\ accepted' = Append(accepted, [caller |-> l.caller_id, check_at |-> l.check_at,
                                         at |-> l.stamp, job_id |-> l.job_id[1]])
        /\ UNCHANGED <<now, jobs, content_processed, slot_counter, storeVars, tierVars>>

\* The clock, kept within less than cooldown_seconds of the start.
TickThreads ==
    /\ now + 1 < 2 * cooldown_seconds
    /\ now' = now + 1
    /\ UNCHANGED <<queueVars, storeVars, tierVars, threadVars, ret, accepted>>

NextThreads ==
    \/ TickThreads
    \/ \E t \in Threads : ThreadCheck(t)
    \/ \E t \in Threads : ThreadCheckTime(t)
    \/ \E t \in Threads : ThreadNextSlot(t)
    \/ \E t \in Threads : ThreadReadSched(t)
    \/ \E t \in Threads : ThreadReadNonce(t)
    \/ \E t \in Threads : ThreadStore(t)
    \/ \E t \in Threads : ThreadReadStamp(t)
    \/ \E t \in Threads : ThreadStamp(t)

SpecThreads == InitThreads /\ [][NextThreads]_vars

AllDone == \A t \in Threads : pc[t] = "done"

Admitted == {t \in Threads : pc[t] = "done" /\ th[t].val # None}

\* One call read the caller's last accepted time after the other call had
\* completed its timestamp update and returned.
Serialized == \E t \in Threads : Other(t) \in th[t].after

\* C17 as stated: of two interleaved schedule calls by the same caller, with
\* the cooldown expired at the start, at most one is admitted and returns a
\* job.
C17_AtMostOneAdmitted == AllDone => Cardinality(Admitted) <= 1

\* C17, amended: the code does not serialize schedule. A call that reads the
\* caller's last accepted time after another call by the same caller has
\* completed its timestamp update, less than cooldown_seconds earlier, is
\* rejected, so of two calls that do not overlap exactly one is admitted; two
\* calls are both admitted exactly when each read the last accepted time
\* before the other's timestamp update.
C17_SerializedAtMostOne ==
    /\ AllDone => (Cardinality(Admitted) = 2 <=> ~Serialized)
    /\ AllDone => Cardinality(Admitted) >= 1
    /\ \A t \in Threads :
          (pc[t] = "done" /\ Other(t) \in th[t].after) => th[t].val = None

\* The second call made its check after the first had returned its job and
\* was rejected: one job is stored and one call returned None.
C17_Witness ==
    /\ AllDone
    /\ Serialized
    /\ Cardinality(Admitted) = 1
    /\ ret.op = "schedule"
    /\ ret.val = None
    /\ Cardinality(DOMAIN jobs) = 1

=============================================================================
